---- MODULE Spec2Model ----
(***************************************************************************)
(* Model of antigravity_extension_v3/popup.js: the popup's handlers        *)
(* (toggleSettings, loadApiKey, saveApiKey, handleSummarize) and the       *)
(* model-selection client (checkModels, callGeminiAPI, tryGenerateContent).*)
(*                                                                         *)
(* The popup is single-threaded and cooperative: a handler runs until its  *)
(* next await.  Every action below is one such run, from an event (click,  *)
(* timer, completion of the awaited call) to the next suspension.          *)
(* Strings the code inspects or builds are sequences of tokens, so that    *)
(* String.includes, String.trim, String.replace, String.slice and          *)
(* concatenation are computed and not assumed.                             *)
(***************************************************************************)
EXTENDS Integers, Sequences, FiniteSets, TLC

\* ------------------------------------------------------------- bounds
\* Number of clicks on the summarize button explored.
MaxCalls == 2
\* Number of clicks on the save-key button explored.
MaxSaves == 1

\* Longest text node of the one-text-node documents explored.
MaxTextLen == 4

\* Slots for suspended handleSummarize activations.  Nothing in the code
\* allocates them; two are enough to show an overlap if one were possible.
Slots == {1, 2}

\* ------------------------------------------------------------- strings
Min(a, b) == IF a < b THEN a ELSE b

\* String.prototype.includes, at token granularity.
Includes(msg, tok) == \E i \in 1..Len(msg) : msg[i] = tok

\* The whitespace characters of the model: space, tab and line feed stand for
\* the set that both the regular expression \s and String.prototype.trim use
\* (WhiteSpace and LineTerminator of ECMAScript).
WhiteSpace == { " ", "\t", "\n" }

\* String.prototype.trim: drops leading and trailing whitespace tokens.
RECURSIVE TrimLeft(_)
TrimLeft(s) == IF s # <<>> /\ Head(s) \in WhiteSpace THEN TrimLeft(Tail(s)) ELSE s

RECURSIVE TrimRight(_)
TrimRight(s) ==
    IF s # <<>> /\ s[Len(s)] \in WhiteSpace
    THEN TrimRight(SubSeq(s, 1, Len(s) - 1))
    ELSE s

Trim(s) == TrimRight(TrimLeft(s))

\* String.prototype.replace(tok, ""): removes the FIRST occurrence of tok,
\* wherever it stands.
RECURSIVE ReplaceFirst(_, _)
ReplaceFirst(s, tok) ==
    IF s = <<>> THEN <<>>
    ELSE IF Head(s) = tok THEN Tail(s)
    ELSE <<Head(s)>> \o ReplaceFirst(Tail(s), tok)

\* popup.js:222  const maxLength = 100000
maxLength == 100000

\* Page text is long, so it is kept run-length encoded: a sequence of runs,
\* each a character c repeated n >= 1 times, neighbouring runs of different
\* characters.  The empty sequence is the empty string (and null).
Run(c, n) == [c |-> c, n |-> n]

\* String.prototype.length of a page text.
RECURSIVE TextLen(_)
TextLen(text) == IF text = <<>> THEN 0 ELSE Head(text).n + TextLen(Tail(text))

\* The text passed through uncut (a variant without line 223).
SliceWhole(text, n) == text

\* String.prototype.slice(0, n) on a page text: the first n characters, or
\* all of them when there are fewer.
RECURSIVE Slice(_, _)
Slice(text, n) ==
    IF text = <<>> \/ n <= 0 THEN <<>>
    ELSE IF Head(text).n <= n
         THEN <<Head(text)>> \o Slice(Tail(text), n - Head(text).n)
         ELSE <<Run(Head(text).c, n)>>

\* ------------------------------------------------------------- inputs
\* Values the user can put in the API-key input field before saving.
KeyInputs == { <<" ">>, <<" ", "k2", " ">> }

\* What chrome.storage.sync holds under geminiApiKey when the popup opens.
StoredKeys == { <<>>, <<"k1">> }

\* Page text returned by the content script (response.content).
Contents == { <<>>, <<Run("p", 1), Run("q", 1)>> }

\* Page texts around the truncation budget: one character under it, exactly
\* at it, one over it, and well over it with the cut inside the second run.
LongContents ==
    { <<Run("p", maxLength - 2), Run("q", 1)>>,
      <<Run("p", maxLength - 1), Run("q", 1)>>,
      <<Run("p", maxLength), Run("q", 1)>>,
      <<Run("p", 60000), Run("q", 70000)>> }

\* Summary texts a generation response can carry.
Summaries == { "s1", "s2" }

\* error.message values of a non-success generation response; <<>> stands
\* for a body without error.message.
ErrorMessages ==
    { <<"models/x is", "not found", "for API version v1beta">>,
      <<"method is", "not supported", "for generateContent">>,
      <<"API key not valid">>,
      <<>> }

\* What the generation fetch can come back with: a success status with or
\* without candidates, a non-success status, or a rejected fetch / a body
\* that is not JSON (both are exceptions thrown inside tryGenerateContent).
GenResponses ==
    { [kind |-> "ok", message |-> <<>>, candidates |-> <<t>>] : t \in Summaries }
    \cup { [kind |-> "ok", message |-> <<>>, candidates |-> <<>>] }
    \cup { [kind |-> "http_error", message |-> m, candidates |-> <<>>] :
              m \in ErrorMessages }
    \cup { [kind |-> "reject", message |-> <<"Failed to fetch">>,
            candidates |-> <<>>] }

Pending == [kind |-> "pending", message |-> <<>>, candidates |-> <<>>]

\* One entry of data.models: name and supportedGenerationMethods (hasMethods
\* is FALSE when the field is absent).
ModelEntry(n, h, ms) == [name |-> n, hasMethods |-> h, methods |-> ms]

Listings ==
    { <<>>,
      << ModelEntry(<<"models/", "gemini-pro">>, TRUE, {"generateContent"}) >>,
      << ModelEntry(<<"models/", "embedding-001">>, TRUE, {"embedContent"}),
         ModelEntry(<<"models/", "aqa">>, FALSE, {}),
         ModelEntry(<<"models/", "gemini-2.0-flash">>, TRUE,
                    {"generateContent", "countTokens"}),
         ModelEntry(<<"models/", "gemini-2.5-pro">>, TRUE, {"generateContent"}) >> }

\* What the listing fetch can come back with.
ListResponses ==
    { [kind |-> "ok", hasModels |-> TRUE, models |-> l] : l \in Listings }
    \cup { [kind |-> "ok", hasModels |-> FALSE, models |-> <<>>],
           [kind |-> "http_error", hasModels |-> FALSE, models |-> <<>>],
           [kind |-> "reject", hasModels |-> FALSE, models |-> <<>>] }

\* ------------------------------------------------------------- client functions
\* popup.js:171-175  the static preference list.
StaticModels ==
    << <<"gemini-1.5-flash">>, <<"gemini-1.5-flash-latest">>, <<"gemini-pro">> >>

\* A candidate list that keeps the static list behind the cached model.
ModelsToTryCachedFirst(valid) ==
    IF valid # <<>> THEN <<valid>> \o StaticModels ELSE StaticModels

\* A candidate list in the opposite preference order.
ModelsToTryReversed(valid) ==
    IF valid # <<>> THEN <<valid>>
    ELSE [i \in 1..Len(StaticModels) |-> StaticModels[Len(StaticModels) + 1 - i]]

\* popup.js:171-180  modelsToTry: the cached model alone when there is one
\* (validModelName is null or a string; null and "" are both falsy and both
\* are the empty sequence here).
ModelsToTry(valid) == IF valid # <<>> THEN <<valid>> ELSE StaticModels

\* A classification under which no error ends the sweep.
IsFatalNever(msg) == FALSE

\* popup.js:191  an error is "profound" when its message has neither marker.
IsFatal(msg) == ~Includes(msg, "not found") /\ ~Includes(msg, "not supported")

\* A credential test that lets an empty key through.
HasApiKeyAlways(key) == TRUE

\* popup.js:71, 137  if (!API_KEY)
HasApiKey(key) == key # <<>>

Returned(v) == [threw |-> FALSE, message |-> <<>>, value |-> v]
Threw(m) == [threw |-> TRUE, message |-> m, value |-> ""]

\* A tryGenerateContent whose empty-result error reads like a model mismatch.
TryGenerateResultEmptyNotFound(resp) ==
    IF resp.kind = "reject" THEN Threw(resp.message)
    ELSE IF resp.kind = "http_error"
        THEN Threw(IF resp.message # <<>> THEN resp.message
                   ELSE <<"Unknown API Error">>)
    ELSE IF Len(resp.candidates) > 0 THEN Returned(resp.candidates[1])
    ELSE Threw(<<"Summary", "not found">>)

\* popup.js:242-260  what tryGenerateContent does with the outcome of its
\* fetch: a rejected fetch (or a body response.json() cannot parse) throws
\* as it is, a non-success status throws error.message or the default, a
\* success status returns the first candidate's text or throws.
TryGenerateResult(resp) ==
    IF resp.kind = "reject" THEN Threw(resp.message)
    ELSE IF resp.kind = "http_error"
        THEN Threw(IF resp.message # <<>> THEN resp.message
                   ELSE <<"Unknown API Error">>)
    ELSE IF Len(resp.candidates) > 0 THEN Returned(resp.candidates[1])
    ELSE Threw(<<"No summary returned from Gemini.">>)

\* A listing that is not filtered by capability.
CapableModelsUnfiltered(models) == models

\* popup.js:154-157  the models whose supportedGenerationMethods includes
\* generateContent, in listing order.
RECURSIVE CapableModels(_)
CapableModels(models) ==
    IF models = <<>> THEN <<>>
    ELSE (IF Head(models).hasMethods /\ "generateContent" \in Head(models).methods
          THEN <<Head(models)>> ELSE <<>>) \o CapableModels(Tail(models))

ListNull == [threw |-> FALSE, isNull |-> TRUE, names |-> <<>>]
ListNames(ns) == [threw |-> FALSE, isNull |-> FALSE, names |-> ns]
ListThrew == [threw |-> TRUE, isNull |-> TRUE, names |-> <<>>]

\* A checkModels without its try/catch: a rejected fetch escapes.
CheckModelsUncaught(lresp) ==
    IF lresp.kind = "reject" THEN ListThrew
    ELSE IF lresp.kind # "ok" THEN ListNull
    ELSE IF lresp.hasModels
        THEN ListNames([i \in 1..Len(CapableModels(lresp.models)) |->
                           ReplaceFirst(CapableModels(lresp.models)[i].name, "models/")])
    ELSE ListNames(<<>>)

\* popup.js:143-166  what checkModels returns for the outcome of its fetch:
\* null for an exception or a non-success status, the capable models' names
\* with "models/" removed, [] for a body without models.  It never throws.
CheckModelsResult(lresp) ==
    IF lresp.kind = "reject" THEN ListNull
    ELSE IF lresp.kind # "ok" THEN ListNull
    ELSE IF lresp.hasModels
        THEN ListNames([i \in 1..Len(CapableModels(lresp.models)) |->
                           ReplaceFirst(CapableModels(lresp.models)[i].name, "models/")])
    ELSE ListNames(<<>>)

NoError == [set |-> FALSE, message |-> <<>>]
SomeError(m) == [set |-> TRUE, message |-> m]

TerminalPrefix == "Could not find any working Gemini model. Last error: "

\* A terminal error that does not report the underlying error.
TerminalErrorBare(lastError) == <<TerminalPrefix, "Unknown">>

\* popup.js:216  the terminal error's message: lastError?.message || "Unknown"
\* after the fixed text.
TerminalError(lastError) ==
    <<TerminalPrefix>> \o
        (IF lastError.set /\ lastError.message # <<>> THEN lastError.message
         ELSE <<"Unknown">>)

\* popup.js:187  a success in the sweep returns at once; validModelName is
\* not assigned.
CacheOnSweepSuccess(valid, model) == valid

\* A discovery success that is not remembered.
CacheOnFallbackForgotten(valid, model) == valid

\* popup.js:209  validModelName = fallbackModel
CacheOnFallbackSuccess(valid, model) == model

\* A cache that is invalidated by a failed attempt.
InvalidateOnFailure(valid) == <<>>

\* popup.js:188-195, 211-213  the catch blocks assign lastError only.
ValidAfterFailedAttempt(valid) == valid

\* ------------------------------------------------------------- extractor
\* The document is a store of nodes addressed by number, so that two
\* references to one node are told from two equal nodes.  Node 1 is
\* document.body and every node of the store is in its subtree.
BodyId == 1

Element(tag, class, role, children) ==
    [ type |-> "element", tag |-> tag, class |-> class, role |-> role,
      children |-> children, data |-> <<>> ]

Text(data) ==
    [ type |-> "text", tag |-> "", class |-> {}, role |-> "",
      children |-> <<>>, data |-> data ]

TagSel(v) == [kind |-> "tag", v |-> v]
ClassSel(v) == [kind |-> "class", v |-> v]
RoleSel(v) == [kind |-> "role", v |-> v]

\* popup.js:429-433
noiseSelectors ==
    << TagSel("script"), TagSel("style"), TagSel("noscript"), TagSel("iframe"),
       TagSel("svg"), TagSel("nav"), TagSel("footer"), TagSel("header"),
       TagSel("aside"), ClassSel("ad"), ClassSel("ads"), RoleSel("alert"),
       RoleSel("banner"), RoleSel("navigation") >>

\* Element.matches for a type, class or attribute-value selector.
Matches(node, sel) ==
    /\ node.type = "element"
    /\ CASE sel.kind = "tag" -> node.tag = sel.v
         [] sel.kind = "class" -> sel.v \in node.class
         [] sel.kind = "role" -> node.role = sel.v

\* The nodes of the subtrees rooted at ids, in document order.
RECURSIVE InOrder(_, _)
InOrder(h, ids) ==
    IF ids = <<>> THEN <<>>
    ELSE <<Head(ids)>> \o InOrder(h, h[Head(ids)].children) \o InOrder(h, Tail(ids))

\* Element.querySelectorAll: the descendants of root that match, in document
\* order.  The root itself is not among them.
QuerySelectorAll(h, root, sel) ==
    SelectSeq(InOrder(h, h[root].children), LAMBDA i : Matches(h[i], sel))

\* ChildNode.remove: el leaves the child list of its parent, if it has one.
Remove(h, el) ==
    [ i \in DOMAIN h |->
        [h[i] EXCEPT !.children = SelectSeq(@, LAMBDA c : c # el)] ]

\* popup.js:437  elements.forEach(el => el.remove())
RECURSIVE RemoveEach(_, _)
RemoveEach(h, els) ==
    IF els = <<>> THEN h ELSE RemoveEach(Remove(h, Head(els)), Tail(els))

\* popup.js:435-438  noiseSelectors.forEach(...)
RECURSIVE RemoveNoise(_, _, _)
RemoveNoise(h, root, sels) ==
    IF sels = <<>> THEN h
    ELSE RemoveNoise(RemoveEach(h, QuerySelectorAll(h, root, Head(sels))),
                     root, Tail(sels))

\* No copy: the reference to the live body is used as it is.
CloneNodeAlias(h, root) == [heap |-> h, node |-> root]

\* Node.cloneNode(true): every node of the subtree gets a fresh copy whose
\* children are the copies of its children.  The copy of node i is node
\* i + Len(h).
CloneNode(h, root) ==
    [ heap |-> h \o [ i \in 1..Len(h) |->
                        [h[i] EXCEPT !.children =
                            [k \in 1..Len(@) |-> @[k] + Len(h)]] ],
      node |-> root + Len(h) ]

RECURSIVE ConcatData(_, _)
ConcatData(h, ids) ==
    IF ids = <<>> THEN <<>> ELSE h[Head(ids)].data \o ConcatData(h, Tail(ids))

\* popup.js:441  clone.innerText.  The clone is not attached to the document
\* and so is not rendered; innerText of an element that is not rendered is its
\* textContent: the data of the text nodes below it, in document order.
InnerText(h, root) == ConcatData(h, InOrder(h, h[root].children))

RECURSIVE DropWhiteSpace(_)
DropWhiteSpace(s) ==
    IF s # <<>> /\ Head(s) \in WhiteSpace THEN DropWhiteSpace(Tail(s)) ELSE s

\* text.replace(/\s/g, ' '): every whitespace character becomes a space, runs
\* keep their length.
RECURSIVE CollapseEach(_)
CollapseEach(s) ==
    IF s = <<>> THEN <<>>
    ELSE <<IF Head(s) \in WhiteSpace THEN " " ELSE Head(s)>> \o CollapseEach(Tail(s))

\* popup.js:442  text.replace(/\s+/g, ' '): every maximal run of whitespace
\* becomes one space.
RECURSIVE CollapseWhitespace(_)
CollapseWhitespace(s) ==
    IF s = <<>> THEN <<>>
    ELSE IF Head(s) \in WhiteSpace
         THEN <<" ">> \o CollapseWhitespace(DropWhiteSpace(Tail(s)))
         ELSE <<Head(s)>> \o CollapseWhitespace(Tail(s))

\* popup.js:442  the whitespace step.
CleanWhitespace(text) == Trim(CollapseWhitespace(text))

\* popup.js:425-445  getVisibleText: the store as the call leaves it and the
\* text it returns.
getVisibleText(h) ==
    LET clone == CloneNode(h, BodyId)
        pruned == RemoveNoise(clone.heap, clone.node, noiseSelectors)
    IN [ heap |-> pruned,
         text |-> CleanWhitespace(InnerText(pruned, clone.node)) ]

\* ------------------------------------------------------------- documents
\* The characters of text nodes: a letter and the whitespace characters.
Chars == {"a"} \cup WhiteSpace

Strings == UNION { [1..k -> Chars] : k \in 0..MaxTextLen }

\* A body holding one text node, for every string up to MaxTextLen.
TextDocs == { << Element("body", {}, "", <<2>>), Text(t) >> : t \in Strings }

Label(tag, class, role) == [tag |-> tag, class |-> class, role |-> role]

\* One element for each noise selector.
NoiseLabels ==
    { IF sel.kind = "tag" THEN Label(sel.v, {}, "")
      ELSE IF sel.kind = "class" THEN Label("div", {sel.v}, "")
      ELSE Label("div", {}, sel.v) :
      sel \in { noiseSelectors[i] : i \in DOMAIN noiseSelectors } }

\* Elements no selector matches, and one that carries a noise class among
\* other classes.
PlainLabels ==
    { Label("div", {}, ""), Label("div", {"advert"}, ""), Label("main", {}, "main") }

Labels == NoiseLabels \cup PlainLabels \cup { Label("div", {"box", "ads"}, "") }

InnerLabels ==
    { Label("div", {}, ""), Label("nav", {}, ""), Label("div", {"ad"}, ""),
      Label("div", {}, "banner"), Label("div", {"advert"}, "") }

BodyLabels ==
    { Label("body", {}, ""), Label("body", {"ad"}, ""), Label("body", {}, "banner") }

\* <body> " a\n" <X> "b" <Y> "\tc" </Y> </X> <Z> "d " </Z> " e\n" </body>
TreeDoc(b, x, y, z) ==
    << Element(b.tag, b.class, b.role, <<2, 3, 7, 9>>),
       Text(<<" ", "a", "\n">>),
       Element(x.tag, x.class, x.role, <<4, 5>>),
       Text(<<"b">>),
       Element(y.tag, y.class, y.role, <<6>>),
       Text(<<"\t", "c">>),
       Element(z.tag, z.class, z.role, <<8>>),
       Text(<<"d", " ">>),
       Text(<<" ", "e", "\n">>) >>

TreeDocs ==
    { TreeDoc(b, x, y, z) :
        b \in BodyLabels, x \in Labels, y \in InnerLabels, z \in InnerLabels }

Docs == TextDocs \cup TreeDocs

\* A body without children.
EmptyDocument == << Element("body", {}, "", <<>>) >>

\* request.action of the messages the page receives.
RequestActions == { "GET_CONTENT", "PING" }

NoResponse == [sent |-> FALSE, content |-> <<>>]

\* ------------------------------------------------------------- state
VARIABLES
    domNodes,              \* the nodes of document.body's subtree
    sentResponse,          \* what the onMessage listener last passed to sendResponse
    listenersReady,        \* popup.js:21-23 have run
    storage,               \* chrome.storage.sync geminiApiKey
    API_KEY,               \* popup.js:15
    apiKeyInput,           \* apiKeyInput.value
    saveKeyBtnText,        \* saveKeyBtn.textContent
    settingsHidden,        \* settingsPanel has class hidden
    mainHidden,            \* mainContent has class hidden
    summarizeBtnDisabled,  \* summarizeBtn.disabled
    loaderHidden,          \* loader.hidden
    statusText,            \* statusText.textContent and the style setStatus gave it
    validModelName,        \* popup.js:134
    pendingSets,           \* saveApiKey activations suspended at storage.sync.set
    timers,                \* setTimeout callbacks of saveApiKey not yet run
    op,                    \* handleSummarize activations, by slot
    nCalls,                \* summarize clicks so far
    nSaves                 \* save clicks so far

vars ==
    << domNodes, sentResponse, listenersReady, storage, API_KEY, apiKeyInput, saveKeyBtnText,
       settingsHidden, mainHidden, summarizeBtnDisabled, loaderHidden,
       statusText, validModelName, pendingSets, timers, op, nCalls, nSaves >>

Status(text, type) == [text |-> text, type |-> type]

NoResult == [kind |-> "none", message |-> <<>>, text |-> ""]
Ok(t) == [kind |-> "ok", message |-> <<>>, text |-> t]
Err(m) == [kind |-> "err", message |-> m, text |-> ""]

NoListResp == [kind |-> "none", hasModels |-> FALSE, models |-> <<>>]

\* One activation of handleSummarize with the locals of the callGeminiAPI it
\* runs.  reqs is the list of network requests the activation has issued,
\* each with the response it got; result is what callGeminiAPI returned or
\* threw; outcome is how handleSummarize ended.
IdleOp ==
    [ pc |-> "idle", content |-> <<>>, startValid |-> <<>>,
      modelsToTry |-> <<>>, idx |-> 0, lastError |-> NoError,
      fallbackModel |-> <<>>, reqs |-> <<>>, listResp |-> NoListResp,
      result |-> NoResult, outcome |-> "none" ]

\* popup.js:1-23, 134  the popup as it opens: loadApiKey is still to run and
\* no listener is registered.  The panels are as popup.html declares them
\* (settings closed, main content shown).
InitPopup ==
    /\ listenersReady = FALSE
    /\ storage \in StoredKeys
    /\ API_KEY = <<>>
    /\ apiKeyInput = <<>>
    /\ saveKeyBtnText = "Save"
    /\ settingsHidden = TRUE
    /\ mainHidden = FALSE
    /\ summarizeBtnDisabled = FALSE
    /\ loaderHidden = TRUE
    /\ statusText = Status(<<>>, "normal")
    /\ validModelName = <<>>
    /\ pendingSets = <<>>
    /\ timers = <<>>
    /\ op = [s \in Slots |-> IdleOp]
    /\ nCalls = 0
    /\ nSaves = 0

\* The popup's own document is not part of the summarize path; it starts as
\* an empty body.
Init ==
    /\ InitPopup
    /\ domNodes = EmptyDocument
    /\ sentResponse = NoResponse

\* The page the message listener runs in holds any of the documents.
InitExtract ==
    /\ InitPopup
    /\ domNodes \in Docs
    /\ sentResponse = NoResponse

\* ------------------------------------------------------------- settings
\* popup.js:27-36  toggleSettings
ToggleSettingsEffect ==
    IF settingsHidden
    THEN settingsHidden' = FALSE /\ mainHidden' = TRUE
    ELSE settingsHidden' = TRUE /\ mainHidden' = FALSE

\* popup.js:21  a click on the settings button.
ToggleSettings ==
    /\ listenersReady
    /\ ToggleSettingsEffect
    /\ UNCHANGED << domNodes, sentResponse, listenersReady, storage, API_KEY, apiKeyInput, saveKeyBtnText,
                    summarizeBtnDisabled, loaderHidden, statusText,
                    validModelName, pendingSets, timers, op, nCalls, nSaves >>

\* popup.js:38-48, 18-23  loadApiKey resumes with the stored data, then the
\* listeners are registered.
LoadApiKey ==
    /\ ~listenersReady
    /\ IF storage # <<>>
       THEN /\ API_KEY' = storage
            /\ apiKeyInput' = storage
            /\ UNCHANGED statusText
       ELSE /\ statusText' =
                 Status(<<"Please set your Gemini API Key in settings.">>, "warning")
            /\ UNCHANGED << API_KEY, apiKeyInput >>
    /\ listenersReady' = TRUE
    /\ UNCHANGED << domNodes, sentResponse, storage, saveKeyBtnText,
                    settingsHidden, mainHidden,
                    summarizeBtnDisabled, loaderHidden, validModelName,
                    pendingSets, timers, op, nCalls, nSaves >>

\* popup.js:50-54  a click on the save button, with whatever the user has
\* put in the key field by then: an empty trimmed key returns, any other is
\* handed to storage.sync.set and the handler suspends.  panelOpen notes
\* whether the settings panel was showing at the click; the code does not
\* read it.
SaveApiKeyClick ==
    /\ listenersReady
    /\ nSaves < MaxSaves
    /\ nSaves' = nSaves + 1
    /\ \E v \in KeyInputs \cup {apiKeyInput} :
          /\ apiKeyInput' = v
          /\ pendingSets' =
                 IF Trim(v) = <<>> THEN pendingSets
                 ELSE Append(pendingSets,
                             [key |-> Trim(v), panelOpen |-> ~settingsHidden])
    /\ UNCHANGED << domNodes, sentResponse, listenersReady, storage, API_KEY, saveKeyBtnText,
                    settingsHidden, mainHidden, summarizeBtnDisabled,
                    loaderHidden, statusText, validModelName, timers, op, nCalls >>

\* popup.js:54-67  storage.sync.set resolved: the key becomes API_KEY, the
\* button shows "Saved!" and the 1 s timer is armed with the text the button
\* had.
SaveApiKeyStored ==
    /\ pendingSets # <<>>
    /\ storage' = Head(pendingSets).key
    /\ API_KEY' = Head(pendingSets).key
    /\ timers' = Append(timers, [originalText |-> saveKeyBtnText,
                                  panelOpen |-> Head(pendingSets).panelOpen])
    /\ saveKeyBtnText' = "Saved!"
    /\ pendingSets' = Tail(pendingSets)
    /\ UNCHANGED << domNodes, sentResponse, listenersReady, apiKeyInput, settingsHidden, mainHidden,
                    summarizeBtnDisabled, loaderHidden, statusText,
                    validModelName, op, nCalls, nSaves >>

\* popup.js:54  storage.sync.set rejected (quota): saveApiKey ends there with
\* an unhandled rejection.
SaveApiKeyRejected ==
    /\ pendingSets # <<>>
    /\ pendingSets' = Tail(pendingSets)
    /\ UNCHANGED << domNodes, sentResponse, listenersReady, storage, API_KEY, apiKeyInput, saveKeyBtnText,
                    settingsHidden, mainHidden, summarizeBtnDisabled,
                    loaderHidden, statusText, validModelName, timers, op,
                    nCalls, nSaves >>

\* popup.js:62-67  the timer callback of saveApiKey.
SaveApiKeyTimer ==
    /\ timers # <<>>
    /\ saveKeyBtnText' = Head(timers).originalText
    /\ timers' = Tail(timers)
    /\ ToggleSettingsEffect
    /\ statusText' = Status(<<"Ready to summarize">>, "normal")
    /\ UNCHANGED << domNodes, sentResponse, listenersReady, storage, API_KEY, apiKeyInput,
                    summarizeBtnDisabled, loaderHidden, validModelName,
                    pendingSets, op, nCalls, nSaves >>

\* ------------------------------------------------------------- handleSummarize
InFlight == { s \in Slots : op[s].pc # "idle" }

\* The slot a new activation takes.
FreeSlot == CHOOSE s \in Slots : op[s].pc = "idle" /\ \A t \in Slots : op[t].pc = "idle" => s <= t

\* A setLoading that leaves the button enabled.
SetLoadingLeavesEnabled(isLoading) == FALSE

\* popup.js:396  summarizeBtn.disabled = isLoading
SetLoadingDisabled(isLoading) == isLoading

\* popup.js:397  loader.hidden = !isLoading
SetLoadingLoaderHidden(isLoading) == ~isLoading

\* A catch block that leaves the popup in its loading state.
FinishErrorKeepsLoading(s, o, msg) ==
    /\ op' = [op EXCEPT ![s] = [o EXCEPT !.pc = "idle", !.outcome = "error"]]
    /\ UNCHANGED << summarizeBtnDisabled, loaderHidden >>
    /\ statusText' = Status(<<"Error: ">> \o msg, "error")

\* popup.js:395-402, 124-127  the catch block of handleSummarize.
FinishError(s, o, msg) ==
    /\ op' = [op EXCEPT ![s] = [o EXCEPT !.pc = "idle", !.outcome = "error"]]
    /\ summarizeBtnDisabled' = SetLoadingDisabled(FALSE)
    /\ loaderHidden' = SetLoadingLoaderHidden(FALSE)
    /\ statusText' = Status(<<"Error: ">> \o msg, "error")

\* popup.js:119-122  openSummaryWindow, setLoading(false), showSuccess.
FinishSuccess(s, o) ==
    /\ op' = [op EXCEPT ![s] = [o EXCEPT !.pc = "idle", !.outcome = "success"]]
    /\ summarizeBtnDisabled' = SetLoadingDisabled(FALSE)
    /\ loaderHidden' = SetLoadingLoaderHidden(FALSE)
    /\ statusText' = Status(<<"Done! Summary ready.">>, "success")

\* popup.js:106-122  callGeminiAPI returned: saveToFile if asked (it starts a
\* FileReader and touches nothing here), then the clipboard write, which
\* suspends, or the end of the handler.
AfterSummary(s, o, shouldCopy) ==
    IF shouldCopy
    THEN /\ op' = [op EXCEPT ![s] = [o EXCEPT !.pc = "clipboard"]]
         /\ UNCHANGED << summarizeBtnDisabled, loaderHidden, statusText >>
    ELSE FinishSuccess(s, o)

\* popup.js:219-246  tryGenerateContent up to its fetch: the endpoint is built
\* from the model and the API_KEY of that moment, the text is cut to
\* maxLength.
IssueGen(o, model, key) ==
    [o EXCEPT !.reqs = Append(@, [kind |-> "gen", model |-> model, key |-> key,
                                   text |-> Slice(o.content, maxLength),
                                   resp |-> Pending])]

\* popup.js:142-144  checkModels up to its fetch.
IssueList(o, key) ==
    [o EXCEPT !.reqs = Append(@, [kind |-> "list", model |-> <<>>, key |-> key,
                                   text |-> <<>>, resp |-> Pending])]

SetResp(o, resp) == [o EXCEPT !.reqs[Len(o.reqs)].resp = resp]

\* popup.js:70-78, 82  a click on the summarize button (a disabled button
\* dispatches no click).  Without a key: the status, the settings panel and
\* return.  With one: setLoading(true), the status, and the handler suspends
\* at chrome.tabs.query.
HandleSummarizeClick ==
    /\ listenersReady
    /\ ~summarizeBtnDisabled
    /\ nCalls < MaxCalls
    /\ \E s \in Slots : op[s].pc = "idle"
    /\ nCalls' = nCalls + 1
    /\ IF ~HasApiKey(API_KEY)
       THEN /\ statusText' =
                 Status(<<"Missing API Key. Click 'Settings' to add it.">>, "error")
            /\ ToggleSettingsEffect
            /\ UNCHANGED << summarizeBtnDisabled, loaderHidden, op >>
       ELSE /\ summarizeBtnDisabled' = SetLoadingDisabled(TRUE)
            /\ loaderHidden' = SetLoadingLoaderHidden(TRUE)
            /\ statusText' = Status(<<"Extracting content...">>, "normal")
            /\ op' = [op EXCEPT ![FreeSlot] = [IdleOp EXCEPT !.pc = "tabsQuery"]]
            /\ UNCHANGED << settingsHidden, mainHidden >>
    /\ UNCHANGED << domNodes, sentResponse, listenersReady, storage, API_KEY, apiKeyInput, saveKeyBtnText,
                    validModelName, pendingSets, timers, nSaves >>

\* popup.js:82-90  chrome.tabs.query resolved: without a tab the handler
\* throws, with one it suspends at executeScript.
TabsQueryDone(s) ==
    /\ op[s].pc = "tabsQuery"
    /\ \E tab \in BOOLEAN :
          IF tab
          THEN /\ op' = [op EXCEPT ![s].pc = "inject"]
               /\ UNCHANGED << summarizeBtnDisabled, loaderHidden, statusText >>
          ELSE FinishError(s, op[s], <<"No active tab found">>)
    /\ UNCHANGED << domNodes, sentResponse, listenersReady, storage, API_KEY, apiKeyInput, saveKeyBtnText,
                    settingsHidden, mainHidden, validModelName, pendingSets,
                    timers, nCalls, nSaves >>

\* popup.js:86-96  executeScript resolved or rejected (the rejection is
\* logged and dropped); the handler suspends at tabs.sendMessage.
InjectDone(s) ==
    /\ op[s].pc = "inject"
    /\ op' = [op EXCEPT ![s].pc = "sendMessage"]
    /\ UNCHANGED << domNodes, sentResponse, listenersReady, storage, API_KEY, apiKeyInput, saveKeyBtnText,
                    settingsHidden, mainHidden, summarizeBtnDisabled,
                    loaderHidden, statusText, validModelName, pendingSets,
                    timers, nCalls, nSaves >>

\* popup.js:96-104, 169-187, 219-246  tabs.sendMessage resolved.  Without
\* content the handler throws.  With content: the status, then callGeminiAPI
\* builds modelsToTry and issues the first generation request.
SendMessageResponds(s, contents) ==
    /\ op[s].pc = "sendMessage"
    /\ \E c \in contents :
          IF c = <<>>
          THEN /\ FinishError(s, op[s], <<"Could not extract content from page.">>)
          ELSE LET o1 == [op[s] EXCEPT !.content = c,
                                       !.startValid = validModelName,
                                       !.modelsToTry = ModelsToTry(validModelName),
                                       !.idx = 1,
                                       !.lastError = NoError]
               IN /\ op' = [op EXCEPT ![s] =
                              [IssueGen(o1, o1.modelsToTry[1], API_KEY)
                                  EXCEPT !.pc = "gen"]]
                  /\ statusText' = Status(<<"Asking Gemini...">>, "normal")
                  /\ UNCHANGED << summarizeBtnDisabled, loaderHidden >>
    /\ UNCHANGED << domNodes, sentResponse, listenersReady, storage, API_KEY, apiKeyInput, saveKeyBtnText,
                    settingsHidden, mainHidden, validModelName, pendingSets,
                    timers, nCalls, nSaves >>

SendMessageDone(s) == SendMessageResponds(s, Contents)

\* The same step on a page whose text is near or over the truncation budget.
SendMessageDoneLong(s) == SendMessageResponds(s, LongContents)

\* popup.js:96  tabs.sendMessage rejected (no receiving end in the tab).
SendMessageRejected(s) ==
    /\ op[s].pc = "sendMessage"
    /\ FinishError(s, op[s], <<"Could not establish connection.">>)
    /\ UNCHANGED << domNodes, sentResponse, listenersReady, storage, API_KEY, apiKeyInput, saveKeyBtnText,
                    settingsHidden, mainHidden, validModelName, pendingSets,
                    timers, nCalls, nSaves >>

\* The other variables of a step of callGeminiAPI.
ClientFrame ==
    UNCHANGED << domNodes, sentResponse, listenersReady, storage, API_KEY, apiKeyInput, saveKeyBtnText,
                 settingsHidden, mainHidden, pendingSets, timers, nCalls, nSaves >>

\* popup.js:185-200, 136-144  the fetch of a sweep attempt came back.
\* Success: callGeminiAPI returns the text.  A fatal error is rethrown and
\* lands in the catch of handleSummarize.  A mismatch goes to the next
\* candidate, or after the last one to the status line and checkModels, which
\* returns null without a key and otherwise suspends at its fetch.
GenResponse(s) ==
    /\ op[s].pc = "gen"
    /\ \E resp \in GenResponses, shouldCopy \in BOOLEAN :
          LET o1 == SetResp(op[s], resp)
              out == TryGenerateResult(resp)
              model == o1.modelsToTry[o1.idx]
              o2 == [o1 EXCEPT !.lastError = SomeError(out.message)]
          IN IF ~out.threw
             THEN /\ validModelName' = CacheOnSweepSuccess(validModelName, model)
                  /\ AfterSummary(s, [o1 EXCEPT !.result = Ok(out.value)], shouldCopy)
             ELSE IF IsFatal(out.message)
             THEN /\ validModelName' = ValidAfterFailedAttempt(validModelName)
                  /\ FinishError(s, [o2 EXCEPT !.result = Err(out.message)],
                                 out.message)
             ELSE IF o2.idx < Len(o2.modelsToTry)
             THEN /\ validModelName' = ValidAfterFailedAttempt(validModelName)
                  /\ op' = [op EXCEPT ![s] =
                              IssueGen([o2 EXCEPT !.idx = o2.idx + 1],
                                       o2.modelsToTry[o2.idx + 1], API_KEY)]
                  /\ UNCHANGED << summarizeBtnDisabled, loaderHidden, statusText >>
             ELSE IF HasApiKey(API_KEY)
             THEN /\ validModelName' = ValidAfterFailedAttempt(validModelName)
                  /\ op' = [op EXCEPT ![s] =
                              [IssueList(o2, API_KEY) EXCEPT !.pc = "list"]]
                  /\ statusText' =
                       Status(<<"Finding compatible model...">>, "warning")
                  /\ UNCHANGED << summarizeBtnDisabled, loaderHidden >>
             ELSE /\ validModelName' = ValidAfterFailedAttempt(validModelName)
                  /\ FinishError(s,
                        [o2 EXCEPT !.result = Err(TerminalError(o2.lastError))],
                        TerminalError(o2.lastError))
    /\ ClientFrame

\* popup.js:144-166, 200-207, 216  the listing fetch came back.  With a first
\* capable model callGeminiAPI issues one more generation request; with none
\* (or null) it throws the terminal error.
ListResponse(s) ==
    /\ op[s].pc = "list"
    /\ \E lresp \in ListResponses :
          LET o1 == [SetResp(op[s], [Pending EXCEPT !.kind = lresp.kind])
                        EXCEPT !.listResp = lresp]
              availableModels == CheckModelsResult(lresp)
          IN IF availableModels.threw
             THEN FinishError(s, [o1 EXCEPT !.result = Err(<<"Failed to fetch">>)],
                              <<"Failed to fetch">>)
             ELSE IF ~availableModels.isNull /\ Len(availableModels.names) > 0
             THEN /\ op' = [op EXCEPT ![s] =
                              [IssueGen([o1 EXCEPT !.fallbackModel =
                                                      availableModels.names[1]],
                                        availableModels.names[1], API_KEY)
                                  EXCEPT !.pc = "genFallback"]]
                  /\ UNCHANGED << summarizeBtnDisabled, loaderHidden, statusText >>
             ELSE FinishError(s,
                     [o1 EXCEPT !.result = Err(TerminalError(o1.lastError))],
                     TerminalError(o1.lastError))
    /\ UNCHANGED validModelName
    /\ ClientFrame

\* popup.js:206-216  the fetch of the attempt on the discovered model came
\* back.  Success: the model is remembered and the text returned.  Any error
\* becomes lastError and the terminal error is thrown.
FallbackResponse(s) ==
    /\ op[s].pc = "genFallback"
    /\ \E resp \in GenResponses, shouldCopy \in BOOLEAN :
          LET o1 == SetResp(op[s], resp)
              out == TryGenerateResult(resp)
              o2 == [o1 EXCEPT !.lastError = SomeError(out.message)]
          IN IF ~out.threw
             THEN /\ validModelName' =
                       CacheOnFallbackSuccess(validModelName, o1.fallbackModel)
                  /\ AfterSummary(s, [o1 EXCEPT !.result = Ok(out.value)], shouldCopy)
             ELSE /\ validModelName' = ValidAfterFailedAttempt(validModelName)
                  /\ FinishError(s,
                        [o2 EXCEPT !.result = Err(TerminalError(o2.lastError))],
                        TerminalError(o2.lastError))
    /\ ClientFrame

\* popup.js:115-127  navigator.clipboard.writeText resolved, or rejected into
\* the catch block.
ClipboardDone(s) ==
    /\ op[s].pc = "clipboard"
    /\ \E written \in BOOLEAN :
          IF written THEN FinishSuccess(s, op[s])
          ELSE FinishError(s, op[s], <<"Document is not focused.">>)
    /\ UNCHANGED validModelName
    /\ ClientFrame

\* ------------------------------------------------------------- extraction
\* popup.js:447-457  the runtime.onMessage listener.  A GET_CONTENT request is
\* answered with getVisibleText(); the clone is unreachable once the call
\* returns, so the store keeps the nodes of the live body only.  Any other
\* request is ignored.
OnMessage ==
    /\ \E action \in RequestActions :
          IF action = "GET_CONTENT"
          THEN LET r == getVisibleText(domNodes)
               IN /\ domNodes' = SubSeq(r.heap, 1, Len(domNodes))
                  /\ sentResponse' = [sent |-> TRUE, content |-> r.text]
          ELSE UNCHANGED << domNodes, sentResponse >>
    /\ UNCHANGED << listenersReady, storage, API_KEY, apiKeyInput, saveKeyBtnText,
                    settingsHidden, mainHidden, summarizeBtnDisabled,
                    loaderHidden, statusText, validModelName, pendingSets,
                    timers, op, nCalls, nSaves >>

\* ------------------------------------------------------------- specification
Next ==
    \/ LoadApiKey
    \/ ToggleSettings
    \/ SaveApiKeyClick
    \/ SaveApiKeyStored
    \/ SaveApiKeyRejected
    \/ SaveApiKeyTimer
    \/ HandleSummarizeClick
    \/ \E s \in Slots : TabsQueryDone(s)
    \/ \E s \in Slots : InjectDone(s)
    \/ \E s \in Slots : SendMessageDone(s)
    \/ \E s \in Slots : SendMessageRejected(s)
    \/ \E s \in Slots : GenResponse(s)
    \/ \E s \in Slots : ListResponse(s)
    \/ \E s \in Slots : FallbackResponse(s)
    \/ \E s \in Slots : ClipboardDone(s)

Spec == Init /\ [][Next]_vars

\* The call activation s is suspended at settles: it resolves or rejects and
\* the activation runs to its next await or to its end.
Settle(s) ==
    \/ TabsQueryDone(s)
    \/ InjectDone(s)
    \/ SendMessageDone(s)
    \/ SendMessageRejected(s)
    \/ GenResponse(s)
    \/ ListResponse(s)
    \/ FallbackResponse(s)
    \/ ClipboardDone(s)

\* Every browser and network call an activation waits for is eventually
\* resolved or rejected.
CallsSettle == \A s \in Slots : WF_vars(Settle(s))

FairSpec == Spec /\ CallsSettle

\* The summarize path alone, on pages with long text.
NextLong ==
    \/ LoadApiKey
    \/ HandleSummarizeClick
    \/ \E s \in Slots : TabsQueryDone(s)
    \/ \E s \in Slots : InjectDone(s)
    \/ \E s \in Slots : SendMessageDoneLong(s)
    \/ \E s \in Slots : SendMessageRejected(s)
    \/ \E s \in Slots : GenResponse(s)
    \/ \E s \in Slots : ListResponse(s)
    \/ \E s \in Slots : FallbackResponse(s)
    \/ \E s \in Slots : ClipboardDone(s)

SpecLong == Init /\ [][NextLong]_vars

\* The message listener alone, on every document.  It shares no variable
\* with the handlers of the popup.
NextExtract == OnMessage

SpecExtract == InitExtract /\ [][NextExtract]_vars

\* ------------------------------------------------------------- reading the request list
\* The response reports a model mismatch: a non-success status whose message
\* names the model as not found or the method as not supported.
RespMismatch(resp) ==
    /\ resp.kind = "http_error"
    /\ Includes(resp.message, "not found") \/ Includes(resp.message, "not supported")

\* The response carries a summary.
RespSuccess(resp) == resp.kind = "ok" /\ resp.candidates # <<>>

\* The attempt failed, and not with a model mismatch.
RespFatal(resp) ==
    /\ resp.kind \in {"ok", "http_error", "reject"}
    /\ ~RespSuccess(resp)
    /\ ~RespMismatch(resp)

\* Request j of activation o belongs to the candidate sweep: it is a
\* generation request and no listing request precedes it.
IsSweepReq(o, j) ==
    /\ j \in 1..Len(o.reqs)
    /\ \A k \in 1..j : o.reqs[k].kind = "gen"

\* Request j of activation o is the attempt on the discovered candidate.
IsFallbackReq(o, j) ==
    /\ j \in 2..Len(o.reqs)
    /\ o.reqs[j].kind = "gen"
    /\ o.reqs[j - 1].kind = "list"

\* The first listed model able to generate content, with "models/" removed.
HasCapable(models) ==
    \E i \in 1..Len(models) :
        models[i].hasMethods /\ "generateContent" \in models[i].methods

FirstCapableName(models) ==
    LET i == CHOOSE k \in 1..Len(models) :
                /\ models[k].hasMethods /\ "generateContent" \in models[k].methods
                /\ \A h \in 1..(k - 1) :
                      ~(models[h].hasMethods /\ "generateContent" \in models[h].methods)
    IN ReplaceFirst(models[i].name, "models/")

\* ------------------------------------------------------------- C1
\* C1: in a call that uses the static preference list, the sweep requests go
\* to the static candidates in preference order, each one only after the one
\* before it failed with a model mismatch; and when all candidates before
\* position j failed so and candidate j succeeds, the call returns exactly the
\* text of response j and request j is the last request of the call.
C1_SweepInOrderFirstSuccess ==
    \A s \in Slots :
        LET o == op[s] IN
        o.startValid = <<>> =>
            \A j \in 1..Len(o.reqs) :
                IsSweepReq(o, j) =>
                    /\ j <= Len(StaticModels)
                    /\ o.reqs[j].model = StaticModels[j]
                    /\ \A k \in 1..(j - 1) : RespMismatch(o.reqs[k].resp)
                    /\ RespSuccess(o.reqs[j].resp) =>
                          /\ o.result = Ok(o.reqs[j].resp.candidates[1])
                          /\ Len(o.reqs) = j

\* The second static candidate succeeded after the first was not found.
C1_Witness ==
    \E s \in Slots :
        /\ op[s].startValid = <<>>
        /\ Len(op[s].reqs) = 2
        /\ RespMismatch(op[s].reqs[1].resp)
        /\ op[s].reqs[2].model = StaticModels[2]
        /\ op[s].result = Ok("s2")

\* ------------------------------------------------------------- C2
\* C2: when a call that started without a cached model has returned the
\* summary of a candidate of the static list, validModelName is that
\* candidate.
C2_StaticSuccessIsCached ==
    \A s \in Slots :
        LET o == op[s] IN
        ( /\ o.startValid = <<>>
          /\ o.result.kind = "ok"
          /\ IsSweepReq(o, Len(o.reqs)) )
        => validModelName = o.reqs[Len(o.reqs)].model

\* ------------------------------------------------------------- C3
\* C3: a sweep attempt that fails with an error that is not a model mismatch
\* is the last request of the call (no later candidate, no listing), the call
\* throws that very error, and validModelName is what it was when the call
\* started.
C3_FatalAbortsSweep ==
    \A s \in Slots :
        LET o == op[s] IN
        \A j \in 1..Len(o.reqs) :
            (IsSweepReq(o, j) /\ RespFatal(o.reqs[j].resp)) =>
                /\ Len(o.reqs) = j
                /\ o.result = Err(TryGenerateResult(o.reqs[j].resp).message)
                /\ o.pc = "idle"
                /\ o.outcome = "error"
                /\ validModelName = o.startValid

\* The second static candidate failed with an authentication error after the
\* first was not found.
C3_Witness ==
    \E s \in Slots :
        /\ op[s].startValid = <<>>
        /\ Len(op[s].reqs) = 2
        /\ RespMismatch(op[s].reqs[1].resp)
        /\ op[s].reqs[2].resp.message = <<"API key not valid">>
        /\ op[s].result = Err(<<"API key not valid">>)

\* ------------------------------------------------------------- C4
MissingKeyStatus ==
    Status(<<"Missing API Key. Click 'Settings' to add it.">>, "error")

\* C4: a summarize click taken while API_KEY is empty ends in that same step
\* with the missing-key error on the status line, starts no activation and
\* issues no request; and no request at all, by any activation, carries an
\* empty key or exists while API_KEY is empty.
C4_NoKeyNoNetwork ==
    /\ [][ (nCalls' = nCalls + 1 /\ API_KEY = <<>>) =>
              /\ statusText' = MissingKeyStatus
              /\ op' = op
              /\ summarizeBtnDisabled' = summarizeBtnDisabled ]_vars
    /\ [](\A s \in Slots :
             /\ \A j \in 1..Len(op[s].reqs) : op[s].reqs[j].key # <<>>
             /\ API_KEY = <<>> => (op[s].reqs = <<>> /\ op[s].pc = "idle"))

\* The click has been handled without a key.
C4_Witness ==
    /\ API_KEY = <<>>
    /\ nCalls > 0
    /\ statusText = MissingKeyStatus
    /\ ~settingsHidden

\* ------------------------------------------------------------- C5
\* C5: once the listing has come back with a model able to generate content,
\* the next request of the call is a generation request to the first such
\* model (its name without "models/"); and if that request succeeds the call
\* returns its text and validModelName is that model.
C5_DiscoveredCandidateUsedAndCached ==
    \A s \in Slots :
        LET o == op[s] IN
        \A j \in 1..Len(o.reqs) :
            ( /\ o.reqs[j].kind = "list"
              /\ o.listResp.kind = "ok"
              /\ o.listResp.hasModels
              /\ HasCapable(o.listResp.models) )
            => /\ \A k \in 1..(j - 1) : RespMismatch(o.reqs[k].resp)
               /\ Len(o.reqs) = j + 1
               /\ o.reqs[j + 1].kind = "gen"
               /\ o.reqs[j + 1].model = FirstCapableName(o.listResp.models)
               /\ RespSuccess(o.reqs[j + 1].resp) =>
                     /\ o.result = Ok(o.reqs[j + 1].resp.candidates[1])
                     /\ validModelName = FirstCapableName(o.listResp.models)

\* The three static candidates failed, the listing's first capable model is
\* its third entry, and the attempt on it succeeded.
C5_Witness ==
    \E s \in Slots :
        /\ Len(op[s].reqs) = 5
        /\ op[s].reqs[4].kind = "list"
        /\ op[s].reqs[5].model = <<"gemini-2.0-flash">>
        /\ op[s].result = Ok("s1")
        /\ validModelName = <<"gemini-2.0-flash">>

\* ------------------------------------------------------------- C6
\* C6: when the listing has come back without a usable candidate, the call
\* throws the terminal error made of the fixed text followed by the message of
\* the last sweep attempt's error; when the attempt on the discovered
\* candidate has failed, it throws the terminal error made of the fixed text
\* followed by that attempt's error message.
C6_TerminalErrorEmbedsLastError ==
    \A s \in Slots :
        LET o == op[s]
            n == Len(o.reqs)
        IN /\ ( /\ n >= 2
                /\ o.reqs[n].kind = "list"
                /\ o.listResp.kind # "none" )
              => /\ o.result.kind = "err"
                 /\ o.result.message =
                       <<TerminalPrefix>> \o TryGenerateResult(o.reqs[n - 1].resp).message
           /\ ( /\ IsFallbackReq(o, n)
                /\ o.reqs[n].resp.kind # "pending"
                /\ ~RespSuccess(o.reqs[n].resp) )
              => /\ o.result.kind = "err"
                 /\ o.result.message =
                       <<TerminalPrefix>> \o TryGenerateResult(o.reqs[n].resp).message

\* The discovered candidate was itself reported as not supported.
C6_Witness ==
    \E s \in Slots :
        /\ IsFallbackReq(op[s], Len(op[s].reqs))
        /\ op[s].result.kind = "err"
        /\ op[s].result.message =
              <<TerminalPrefix, "method is", "not supported", "for generateContent">>

\* ------------------------------------------------------------- C7
\* Activation s receives, in this step, a successful response to a generation
\* request it had pending, and returns its text.
GenerationSucceeds(s) ==
    LET n == Len(op[s].reqs) IN
    /\ op[s].pc \in {"gen", "genFallback"}
    /\ n > 0
    /\ op[s].reqs[n].resp.kind = "pending"
    /\ Len(op'[s].reqs) = n
    /\ RespSuccess(op'[s].reqs[n].resp)
    /\ op'[s].result = Ok(op'[s].reqs[n].resp.candidates[1])

\* C7: no step takes validModelName from set to empty, and every step that
\* changes it is one in which a generation attempt succeeds, the new value
\* being the model of that attempt.
C7_CacheNeverClearedChangesOnSuccessOnly ==
    [][ /\ validModelName # <<>> => validModelName' # <<>>
        /\ validModelName' # validModelName =>
              \E s \in Slots :
                  /\ GenerationSucceeds(s)
                  /\ validModelName' = op[s].reqs[Len(op[s].reqs)].model ]_vars

\* A call that started with a cached model ended in an error and the cached
\* model is still there.
C7_Witness ==
    \E s \in Slots :
        /\ op[s].startValid # <<>>
        /\ op[s].result.kind = "err"
        /\ op[s].pc = "idle"
        /\ validModelName = op[s].startValid

C9_EveryFatalErrorVerbatim ==
    \A s \in Slots :
        LET o == op[s] IN
        \A j \in 1..Len(o.reqs) :
            (o.reqs[j].kind = "gen" /\ RespFatal(o.reqs[j].resp)) =>
                /\ Len(o.reqs) = j
                /\ o.result = Err(TryGenerateResult(o.reqs[j].resp).message)

\* C9 as amended: a fatal error of a sweep attempt ends the call at once and
\* reaches the caller with its message unchanged; a fatal error of the attempt
\* on the discovered candidate also ends the call with no further request, but
\* reaches the caller inside the terminal error, after its fixed text.
C9_FatalVerbatimInSweepWrappedAfterDiscovery ==
    \A s \in Slots :
        LET o == op[s] IN
        \A j \in 1..Len(o.reqs) :
            (o.reqs[j].kind = "gen" /\ RespFatal(o.reqs[j].resp)) =>
                /\ Len(o.reqs) = j
                /\ o.pc = "idle"
                /\ o.outcome = "error"
                /\ IsSweepReq(o, j) =>
                      o.result = Err(TryGenerateResult(o.reqs[j].resp).message)
                /\ IsFallbackReq(o, j) =>
                      o.result = Err(<<TerminalPrefix>> \o
                                     TryGenerateResult(o.reqs[j].resp).message)

\* The fetch of the attempt on the discovered candidate was rejected, and the
\* caller got the terminal error around the transport error.
C9_Witness ==
    \E s \in Slots :
        /\ IsFallbackReq(op[s], Len(op[s].reqs))
        /\ op[s].reqs[Len(op[s].reqs)].resp.kind = "reject"
        /\ op[s].result = Err(<<TerminalPrefix, "Failed to fetch">>)

\* ------------------------------------------------------------- C10
\* C10: when the listing request has failed (non-success status or rejected
\* fetch), it is the last request of the call, and the call has thrown the
\* terminal error, whose message opens with the fixed text and goes on with
\* the last sweep error, not an error of the listing.
C10_ListingFailureDegrades ==
    \A s \in Slots :
        LET o == op[s]
            n == Len(o.reqs)
        IN o.listResp.kind \in {"http_error", "reject"} =>
              /\ o.reqs[n].kind = "list"
              /\ o.pc = "idle"
              /\ o.outcome = "error"
              /\ o.result.kind = "err"
              /\ o.result.message =
                    <<TerminalPrefix>> \o TryGenerateResult(o.reqs[n - 1].resp).message

\* The listing fetch was rejected and the call ended with the terminal error.
C10_Witness ==
    \E s \in Slots :
        /\ op[s].listResp.kind = "reject"
        /\ op[s].result.kind = "err"
        /\ Head(op[s].result.message) = TerminalPrefix

\* ------------------------------------------------------------- C11
\* C11: within one call no model identifier receives more than one generation
\* request.
C11_NoModelRequestedTwice ==
    \A s \in Slots :
        LET o == op[s] IN
        \A j, k \in 1..Len(o.reqs) :
            (j < k /\ o.reqs[j].kind = "gen" /\ o.reqs[k].kind = "gen")
            => o.reqs[j].model # o.reqs[k].model

\* ------------------------------------------------------------- C12
\* C12: all requests of one activation, generation and listing, carry the same
\* key.
C12_OneCredentialPerOperation ==
    \A s \in Slots :
        LET o == op[s] IN
        \A j, k \in 1..Len(o.reqs) : o.reqs[j].key = o.reqs[k].key

\* ------------------------------------------------------------- C17
\* C17: at most one activation of handleSummarize is between its
\* setLoading(true) and its setLoading(false); the button is disabled exactly
\* while one is, so no click starts a second one, and validModelName has at
\* most one activation that can write it.
C17_OneSummarizeInFlight ==
    /\ Cardinality(InFlight) <= 1
    /\ summarizeBtnDisabled <=> InFlight # {}
    /\ loaderHidden <=> InFlight = {}

\* A second operation is waiting for a generation response while the key has
\* been saved and the settings panel is open.
C17_Witness ==
    /\ nCalls = 2
    /\ nSaves = 1
    /\ ~settingsHidden
    /\ \E s \in Slots : op[s].pc = "gen" /\ summarizeBtnDisabled

\* ------------------------------------------------------------- C18
\* The name without a leading "models/".
StripModelsPrefix(name) ==
    IF name # <<>> /\ Head(name) = "models/" THEN Tail(name) ELSE name

\* The position of the first listed model whose supportedGenerationMethods
\* has generateContent.
FirstCapableIndex(models) ==
    CHOOSE k \in 1..Len(models) :
        /\ models[k].hasMethods /\ "generateContent" \in models[k].methods
        /\ \A h \in 1..(k - 1) :
              ~(models[h].hasMethods /\ "generateContent" \in models[h].methods)

\* C18: after a listing, the call makes a generation request only if some
\* listed model has generateContent, and then exactly one, to the first such
\* model in listing order under its name without the "models/" prefix; once
\* that request is answered the call is over, whatever the answer.
C18_FirstCapableModelTriedOnce ==
    \A s \in Slots :
        LET o == op[s] IN
        \A j \in 1..Len(o.reqs) :
            (o.reqs[j].kind = "list" /\ o.listResp.kind # "none") =>
                IF o.listResp.kind = "ok" /\ o.listResp.hasModels
                   /\ HasCapable(o.listResp.models)
                THEN /\ Len(o.reqs) = j + 1
                     /\ o.reqs[j + 1].kind = "gen"
                     /\ o.reqs[j + 1].model =
                           StripModelsPrefix(
                              o.listResp.models[FirstCapableIndex(o.listResp.models)].name)
                     /\ o.reqs[j + 1].resp.kind # "pending" =>
                           (o.result.kind # "none" /\ o.pc \in {"idle", "clipboard"})
                ELSE Len(o.reqs) = j

\* The first capable model was the third of four listed; the attempt on it
\* was answered "not found" and the call ended there, the fourth untried.
C18_Witness ==
    \E s \in Slots :
        LET o == op[s] IN
        /\ Len(o.reqs) >= 2
        /\ o.reqs[Len(o.reqs) - 1].kind = "list"
        /\ Len(o.listResp.models) = 4
        /\ o.reqs[Len(o.reqs)].model = <<"gemini-2.0-flash">>
        /\ RespMismatch(o.reqs[Len(o.reqs)].resp)
        /\ o.pc = "idle"
        /\ o.result.kind = "err"

\* ------------------------------------------------------------- C14
\* The response has a success status and no candidate.
RespEmpty(resp) == resp.kind = "ok" /\ resp.candidates = <<>>

EmptyResultMessage == <<"No summary returned from Gemini.">>

\* C14 as stated: whichever generation request is answered with a success
\* status and no candidate, the call ends there (no further request) and
\* throws the empty-result error itself.
C14_EmptyResultAbortsWithThatError ==
    \A s \in Slots :
        LET o == op[s] IN
        \A j \in 1..Len(o.reqs) :
            (o.reqs[j].kind = "gen" /\ RespEmpty(o.reqs[j].resp)) =>
                /\ Len(o.reqs) = j
                /\ o.result = Err(EmptyResultMessage)

\* C14 as amended: a sweep request answered with a success status and no
\* candidate is the last request of the call (no further candidate, no
\* listing) and the call throws the empty-result error itself; the request on
\* the discovered candidate answered so is the last request too, and the call
\* throws the terminal error around the empty-result message.
C14_EmptyResultFatalInSweepWrappedAfterDiscovery ==
    \A s \in Slots :
        LET o == op[s] IN
        \A j \in 1..Len(o.reqs) :
            (o.reqs[j].kind = "gen" /\ RespEmpty(o.reqs[j].resp)) =>
                /\ Len(o.reqs) = j
                /\ o.pc = "idle"
                /\ o.outcome = "error"
                /\ IsSweepReq(o, j) => o.result = Err(EmptyResultMessage)
                /\ IsFallbackReq(o, j) =>
                      o.result = Err(<<TerminalPrefix>> \o EmptyResultMessage)

\* The second static candidate answered with a success status and no
\* candidate after the first was not found: the call threw the empty-result
\* error and the third candidate and the listing were not requested.
C14_Witness ==
    \E s \in Slots :
        /\ op[s].startValid = <<>>
        /\ Len(op[s].reqs) = 2
        /\ RespMismatch(op[s].reqs[1].resp)
        /\ RespEmpty(op[s].reqs[2].resp)
        /\ op[s].result = Err(EmptyResultMessage)

\* ------------------------------------------------------------- C20
\* C20: when the timer callback of a save made from the open settings panel
\* has run, the settings panel is hidden and the main content is shown.
C20_TimerClosesSettings ==
    [][ ( /\ timers # <<>>
          /\ timers' = Tail(timers)
          /\ Head(timers).panelOpen )
        => (settingsHidden' /\ ~mainHidden') ]_vars

\* ------------------------------------------------------------- C19
CountKind(reqs, kind) == Cardinality({ j \in 1..Len(reqs) : reqs[j].kind = kind })

\* C19: with every awaited call settling, an activation that has entered the
\* loading state reaches its end; the step that ends it leaves success or
\* error as its one outcome, a summary behind every success, and the loading
\* state cleared (button enabled, loader hidden); and at all times an
\* activation has issued at most (length of its candidate sweep + 1)
\* generation requests and at most one listing request.
C19_SummarizeTerminatesAndClearsLoading ==
    /\ [](\A s \in Slots :
             /\ CountKind(op[s].reqs, "gen") <= Len(op[s].modelsToTry) + 1
             /\ CountKind(op[s].reqs, "list") <= 1
             /\ op[s].pc # "idle" => op[s].outcome = "none"
             /\ op[s].outcome = "success" => op[s].result.kind = "ok")
    /\ [][ \A s \in Slots :
              (op[s].pc # "idle" /\ op'[s].pc = "idle") =>
                  /\ op'[s].outcome \in {"success", "error"}
                  /\ ~summarizeBtnDisabled'
                  /\ loaderHidden' ]_vars
    /\ (InFlight # {}) ~> (InFlight = {})

\* An activation has ended in the terminal error after the three static
\* candidates, the listing and the discovered candidate, and the button is
\* enabled again.
C19_Witness ==
    \E s \in Slots :
        /\ op[s].pc = "idle"
        /\ op[s].outcome = "error"
        /\ CountKind(op[s].reqs, "gen") = 4
        /\ CountKind(op[s].reqs, "list") = 1
        /\ ~summarizeBtnDisabled
        /\ loaderHidden

\* t is the text of the first TextLen(t) characters of x.  With neighbouring
\* runs of different characters the run-length form of a string is unique, so
\* a prefix has the runs of x up to a last one that may be shorter.
RECURSIVE IsPrefix(_, _)
IsPrefix(t, x) ==
    \/ t = <<>>
    \/ /\ x # <<>>
       /\ Head(t).c = Head(x).c
       /\ \/ Head(t).n = Head(x).n /\ IsPrefix(Tail(t), Tail(x))
          \/ Head(t).n < Head(x).n /\ Tail(t) = <<>>

\* C13: in every generation request of an activation, sweep or fallback, the
\* text sent is the prefix of the page text of length
\* min(len(page text), 100000): a longer text is cut to exactly 100000
\* characters, a text within the budget goes out unchanged.
C13_RequestTextIsBudgetPrefix ==
    \A s \in Slots : \A j \in 1..Len(op[s].reqs) :
        op[s].reqs[j].kind = "gen" =>
            LET sent == op[s].reqs[j].text
                page == op[s].content
            IN /\ IsPrefix(sent, page)
               /\ TextLen(sent) = Min(TextLen(page), 100000)
               /\ TextLen(page) > 100000 => TextLen(sent) = 100000
               /\ TextLen(page) <= 100000 => sent = page

\* An activation on a page of 130000 characters has sent the fallback request
\* after the three static ones; the cut fell inside the second run.
C13_Witness ==
    \E s \in Slots :
        /\ op[s].content = <<Run("p", 60000), Run("q", 70000)>>
        /\ CountKind(op[s].reqs, "gen") = 4
        /\ op[s].reqs[Len(op[s].reqs)].text = <<Run("p", 60000), Run("q", 40000)>>

\* C15: the text the extractor returns has no two whitespace characters in a
\* row, starts and ends with a character that is not whitespace, and the
\* whitespace step applied to it gives it back unchanged.
C15_WhitespaceCollapsedTrimmedIdempotent ==
    sentResponse.sent =>
        LET out == sentResponse.content
        IN /\ \A i \in 1..(Len(out) - 1) :
                 ~(out[i] \in WhiteSpace /\ out[i + 1] \in WhiteSpace)
           /\ out # <<>> => (out[1] \notin WhiteSpace /\ out[Len(out)] \notin WhiteSpace)
           /\ CleanWhitespace(out) = out

\* The text "a\n\ta", with a run of two whitespace characters inside, was
\* returned as "a a".
C15_Witness ==
    /\ sentResponse.sent
    /\ domNodes \in TextDocs
    /\ domNodes[2].data = <<"a", "\n", "\t", "a">>
    /\ sentResponse.content = <<"a", " ", "a">>

\* Some selector of the noise list matches the node.
IsNoise(node) == \E i \in DOMAIN noiseSelectors : Matches(node, noiseSelectors[i])

\* The data of the text nodes in the subtrees rooted at ids, in document
\* order, leaving out every subtree whose root is a noise element.
RECURSIVE SurvivingText(_, _)
SurvivingText(h, ids) ==
    IF ids = <<>> THEN <<>>
    ELSE LET n == h[Head(ids)]
         IN (IF n.type = "text" THEN n.data
             ELSE IF IsNoise(n) THEN <<>>
             ELSE SurvivingText(h, n.children))
            \o SurvivingText(h, Tail(ids))

\* C16 as stated: the text returned is the whitespace-cleaned text of the
\* nodes that lie in no subtree rooted at a noise element, the body counted
\* among the elements, in document order; and the call leaves the live
\* document as it was.
C16_NoTextBelowAnyNoiseElement ==
    [][ /\ sentResponse'.sent =>
              sentResponse'.content =
                  CleanWhitespace(SurvivingText(domNodes, <<BodyId>>))
        /\ domNodes' = domNodes ]_vars

\* C16, amended: the text returned is the whitespace-cleaned text of the nodes
\* that lie in no subtree rooted at a noise element below the body (at any
\* depth), in document order; the body itself is kept even when it matches the
\* noise list; and the call leaves the live document as it was.
C16_NoTextBelowNoiseDescendants ==
    [][ /\ sentResponse'.sent =>
              sentResponse'.content =
                  CleanWhitespace(SurvivingText(domNodes, domNodes[BodyId].children))
        /\ domNodes' = domNodes ]_vars

\* From a plain body with a noise element at depth two (nav inside a div) and
\* one at depth one (div.ad), the text around them came back in order.
C16_Witness ==
    /\ sentResponse.sent
    /\ domNodes = TreeDoc(Label("body", {}, ""), Label("div", {}, ""),
                          Label("nav", {}, ""), Label("div", {"ad"}, ""))
    /\ sentResponse.content = <<"a", " ", "b", " ", "e">>

====
